---- MODULE Spec2Model ----
(***************************************************************************)
(* Countdown / progress widgets: the share page (generateMetadata,         *)
(* SharePage and their helpers) and the dashboard (Home, ProgressBar).     *)
(*                                                                         *)
(* Time.  A JavaScript timestamp is a number of milliseconds; the dates of *)
(* the registry are about 1.8 * 10^12 ms, more than a 32-bit integer       *)
(* holds.  A timestamp, and every difference of timestamps, is therefore   *)
(* the record [day, ms] standing for day * MS_PER_DAY + ms with            *)
(* 0 <= ms < MS_PER_DAY; day 0 starts at 1970-01-01T00:00 local time.      *)
(* The local time zone is taken to have a fixed offset, so a Date's local  *)
(* calendar date is its day field.                                         *)
(*                                                                         *)
(* Percent.  The code's percent is Math.round(ratio * 1000) / 10; the      *)
(* model keeps the integer Math.round(ratio * 1000), the percent in tenths *)
(* (0 .. 1000 for 0 .. 100), computed on the exact quotient.               *)
(***************************************************************************)
EXTENDS Integers, Sequences, FiniteSets, TLC

\* ------------------------------------------------------------ bounds

\* Milliseconds the clock may advance between two clock reads of one handler.
MaxDrift == 1

\* Calculator inputs are drawn from days 0 .. MaxDay.
MaxDay == 1

\* Timer firings followed in one lifetime of the dashboard view.
MaxFires == 2

\* ------------------------------------------------------------ constants

MS_PER_DAY == 24 * 60 * 60 * 1000

MS_PER_HOUR == 1000 * 60 * 60

MS_PER_SECOND == 1000

INTERVAL_MS == 60000

Units == {"days", "hours", "seconds"}

\* ------------------------------------------------------------ numbers

\* The number day * MS_PER_DAY + ms, with ms brought into 0 .. MS_PER_DAY - 1.
Num(day, ms) == [day |-> day + (ms \div MS_PER_DAY), ms |-> ms % MS_PER_DAY]

Zero == Num(0, 0)

Minus(a, b) == Num(a.day - b.day, a.ms - b.ms)

Plus(a, b) == Num(a.day + b.day, a.ms + b.ms)

Leq(a, b) == a.day < b.day \/ (a.day = b.day /\ a.ms <= b.ms)

Less(a, b) == Leq(a, b) /\ a # b

MathMax(a, b) == IF Leq(a, b) THEN b ELSE a

MathMin(a, b) == IF Leq(a, b) THEN a ELSE b

\* a * k for a small integer k, seconds and milliseconds multiplied apart so
\* that no intermediate product leaves 32 bits.
Times(a, k) ==
    LET s  == (a.ms \div 1000) * k + (((a.ms % 1000) * k) \div 1000)
        r  == ((a.ms % 1000) * k) % 1000
        sd == MS_PER_DAY \div 1000
    IN  [day |-> a.day * k + (s \div sd), ms |-> (s % sd) * 1000 + r]

\* Math.ceil(a / unit) for a unit that divides MS_PER_DAY.
MathCeilDiv(a, unit) ==
    a.day * (MS_PER_DAY \div unit) + ((a.ms + unit - 1) \div unit)

\* Math.round(a / MS_PER_DAY): halves round up.
MathRoundDays(a) == a.day + (IF 2 * a.ms >= MS_PER_DAY THEN 1 ELSE 0)

\* The largest q in lo .. hi with q * d <= n (lo when there is none).
RECURSIVE LargestQuotient(_, _, _, _)
LargestQuotient(lo, hi, n, d) ==
    IF lo >= hi THEN lo
    ELSE LET mid == (lo + hi + 1) \div 2
         IN  IF Leq(Times(d, mid), n)
             THEN LargestQuotient(mid, hi, n, d)
             ELSE LargestQuotient(lo, mid - 1, n, d)

\* Math.round((elapsed / total) * 1000) for total # 0: the integer q with
\* q <= 1000 * elapsed / total + 1/2 < q + 1, searched in -2000 .. 3000,
\* which holds every value a ratio in [-2, 3] gives.
MathRoundRatio(elapsed, total) ==
    IF Less(total, Zero)
    THEN LargestQuotient(-2000, 3000,
             Minus(Times(Minus(Zero, elapsed), 2000), total),
             Times(Minus(Zero, total), 2))
    ELSE LargestQuotient(-2000, 3000,
             Plus(Times(elapsed, 2000), total), Times(total, 2))

\* ------------------------------------------------------------ dates

\* Days from 1970-01-01 to the civil date y-m-d (m in 1 .. 12).
DaysFromCivil(y, m, d) ==
    LET yy  == IF m <= 2 THEN y - 1 ELSE y
        era == yy \div 400
        yoe == yy - era * 400
        mp  == IF m > 2 THEN m - 3 ELSE m + 9
        doy == ((153 * mp + 2) \div 5) + d - 1
        doe == yoe * 365 + (yoe \div 4) - (yoe \div 100) + doy
    IN  era * 146097 + doe - 719468

\* new Date(year, monthIndex, day, hours, minutes): local time, months from 0.
NewDate(year, monthIndex, day, hours, minutes) ==
    Num(DaysFromCivil(year, monthIndex + 1, day),
        (hours * 60 + minutes) * 60 * 1000)

\* Date.UTC(d.getFullYear(), d.getMonth(), d.getDate()): the date alone.
DateOnly(d) == Num(d.day, 0)

IntMax(a, b) == IF a >= b THEN a ELSE b

\* ------------------------------------------------------------ share page

RegistryIds == {"semester", "year", "school"}

\* Names every object literal answers to through Object.prototype.
ObjectPrototypeKeys == {"constructor", "__proto__"}

\* The instant at which the semester flips to its second sub-range.
Cutoff == NewDate(2026, 1, 2, 11, 45)

\* Faulty variant of semesterGetRange: the cutoff instant itself still in the first half.
semesterGetRange_StrictCutoff(now) ==
    LET cutoff == NewDate(2026, 1, 2, 11, 45)
    IN  IF Less(cutoff, now)
        THEN [start |-> NewDate(2026, 1, 2, 11, 45), end |-> NewDate(2026, 5, 24, 0, 0)]
        ELSE [start |-> NewDate(2025, 8, 2, 0, 0), end |-> NewDate(2026, 1, 2, 11, 45)]

\* items.semester.getRange(now)
semesterGetRange(now) ==
    LET cutoff == NewDate(2026, 1, 2, 11, 45)
    IN  IF Leq(cutoff, now)
        THEN [start |-> NewDate(2026, 1, 2, 11, 45), end |-> NewDate(2026, 5, 24, 0, 0)]
        ELSE [start |-> NewDate(2025, 8, 2, 0, 0), end |-> NewDate(2026, 1, 2, 11, 45)]

\* items[target] of the share page: a registry entry, a member inherited from
\* Object.prototype (truthy, with no title, dates or getRange), or undefined.
shareItems(target) ==
    CASE target = "semester" ->
           [truthy |-> TRUE, title |-> "Semester", getRange |-> TRUE, dated |-> FALSE,
            start |-> Zero, end |-> Zero]
      [] target = "year" ->
           [truthy |-> TRUE, title |-> "School year", getRange |-> FALSE, dated |-> TRUE,
            start |-> NewDate(2025, 8, 2, 0, 0), end |-> NewDate(2026, 5, 24, 0, 0)]
      [] target = "school" ->
           [truthy |-> TRUE, title |-> "High school", getRange |-> FALSE, dated |-> TRUE,
            start |-> NewDate(2023, 8, 5, 0, 0), end |-> NewDate(2027, 5, 25, 0, 0)]
      [] target \in ObjectPrototypeKeys ->
           [truthy |-> TRUE, title |-> "undefined", getRange |-> FALSE, dated |-> FALSE,
            start |-> Zero, end |-> Zero]
      [] OTHER ->
           [truthy |-> FALSE, title |-> "undefined", getRange |-> FALSE, dated |-> FALSE,
            start |-> Zero, end |-> Zero]

\* Faulty variant of calculateDateDiffInDays: the raw difference of the timestamps.
calculateDateDiffInDays_RawMs(end, now) ==
    IntMax(0, MathRoundDays(Minus(end, now)))

\* calculateDateDiffInDays(end, now)
calculateDateDiffInDays(end, now) ==
    LET endUtc == DateOnly(end)
        nowUtc == DateOnly(now)
    IN  IntMax(0, MathRoundDays(Minus(endUtc, nowUtc)))

\* Faulty variant of calculateTimeLeft: the remaining time not floored at 0.
calculateTimeLeft_NoFloor(end, unit, now) ==
    LET timeLeftMs == Minus(end, now)
    IN  CASE unit = "days" -> calculateDateDiffInDays(end, now)
          [] unit = "hours" -> MathCeilDiv(timeLeftMs, MS_PER_HOUR)
          [] unit = "seconds" -> MathCeilDiv(timeLeftMs, MS_PER_SECOND)

\* Faulty variant of calculateTimeLeft: Math.floor in place of Math.ceil.
calculateTimeLeft_RoundDown(end, unit, now) ==
    LET timeLeftMs == MathMax(Zero, Minus(end, now))
    IN  CASE unit = "days" -> calculateDateDiffInDays(end, now)
          [] unit = "hours" -> MathCeilDiv(timeLeftMs, MS_PER_HOUR)
                                 - (IF timeLeftMs.ms % MS_PER_HOUR = 0 THEN 0 ELSE 1)
          [] unit = "seconds" -> MathCeilDiv(timeLeftMs, MS_PER_SECOND)
                                 - (IF timeLeftMs.ms % MS_PER_SECOND = 0 THEN 0 ELSE 1)

\* calculateTimeLeft(end, unit), now being the handler's new Date().
calculateTimeLeft(end, unit, now) ==
    LET timeLeftMs == MathMax(Zero, Minus(end, now))
    IN  CASE unit = "days" -> calculateDateDiffInDays(end, now)
          [] unit = "hours" -> MathCeilDiv(timeLeftMs, MS_PER_HOUR)
          [] unit = "seconds" -> MathCeilDiv(timeLeftMs, MS_PER_SECOND)

\* Faulty variant of calculateProgress: elapsed not capped at total.
calculateProgress_NoCap(start, end, now) ==
    LET total   == Minus(end, start)
        elapsed == MathMax(Minus(now, start), Zero)
    IN  IF total = Zero THEN 0 ELSE MathRoundRatio(elapsed, total)

\* Faulty variant of calculateProgress: the share that remains, not the share elapsed.
calculateProgress_Remaining(start, end, now) ==
    LET total   == Minus(end, start)
        elapsed == MathMin(MathMax(Minus(now, start), Zero), total)
    IN  IF total = Zero THEN 0 ELSE MathRoundRatio(Minus(total, elapsed), total)

\* calculateProgress(start, end), now being the handler's Date.now(); in tenths.
calculateProgress(start, end, now) ==
    LET total   == Minus(end, start)
        elapsed == MathMin(MathMax(Minus(now, start), Zero), total)
    IN  IF total = Zero THEN 0 ELSE MathRoundRatio(elapsed, total)

\* resolveRange(item), now being its Date.now(); an inherited member has
\* neither getRange nor dates, and its range is {undefined, undefined}.
resolveRange(item, now) ==
    IF item.getRange
    THEN [defined |-> TRUE, start |-> semesterGetRange(now).start,
          end |-> semesterGetRange(now).end]
    ELSE [defined |-> item.dated, start |-> item.start, end |-> item.end]

\* The check both handlers make before anything else.
isNotFound(target, unit) == ~shareItems(target).truthy \/ unit \notin Units

\* ------------------------------------------------------------ dashboard

\* items of the dashboard, in display order.
dashItems ==
    << [id |-> "semester", start |-> NewDate(2025, 8, 2, 0, 0),
        end |-> NewDate(2026, 1, 2, 0, 0)],
       [id |-> "school-year", start |-> NewDate(2025, 8, 2, 0, 0),
        end |-> NewDate(2025, 5, 24, 0, 0)],
       [id |-> "high-school", start |-> NewDate(2023, 8, 5, 0, 0),
        end |-> NewDate(2027, 5, 25, 0, 0)] >>

\* Faulty variant of clamp: the lower limit forgotten.
clamp_NoLower(value, min, max) == MathMin(value, max)

clamp(value, min, max) == MathMin(MathMax(value, min), max)

normalizeRange(start, end) ==
    IF Leq(end, start) THEN [start |-> end, end |-> start]
    ELSE [start |-> start, end |-> end]

\* What ProgressBar computes for one item: percent (in tenths) and daysLeft.
ProgressBar(item, now) ==
    LET normalized == normalizeRange(item.start, item.end)
        total      == Minus(normalized.end, normalized.start)
        elapsed    == clamp(Minus(now, normalized.start), Zero, total)
    IN  [percent  |-> IF total = Zero THEN 0 ELSE MathRoundRatio(elapsed, total),
         daysLeft |-> IntMax(0, MathCeilDiv(Minus(normalized.end, now), MS_PER_DAY))]

\* One render of Home: every item against the one now of the state.
Render(now) == [i \in 1..Len(dashItems) |-> ProgressBar(dashItems[i], now)]

\* ------------------------------------------------------------ state

VARIABLES
    clock,      \* the wall clock: what Date.now() and new Date() return
    resp,       \* share page: the locals and result of the request being served
    view,       \* dashboard: "unmounted", "mounted" or "torn"
    nowState,   \* dashboard: the now of useState
    interval,   \* dashboard: whether the setInterval timer is armed
    due,        \* dashboard: when the timer is next due
    fires,      \* dashboard: timer callbacks run so far
    cards,      \* dashboard: what the last render computed for each item
    cStart,     \* calculator: the range's start
    cEnd,       \* calculator: the range's end
    cNow,       \* calculator: the instant the functions are applied at
    cShare,     \* calculator: <<calculateProgress>> once applied at cNow
    cLeft,      \* calculator: <<unit -> calculateTimeLeft>> once applied at cNow
    cBar,       \* calculator: <<ProgressBar>> once applied at cNow
    cPrev       \* calculator: <<the results at the instant before cNow>>

shareVars == <<resp>>

dashVars == <<view, nowState, interval, due, fires, cards>>

calcVars == <<cStart, cEnd, cNow, cShare, cLeft, cBar, cPrev>>

vars == <<clock, resp, view, nowState, interval, due, fires, cards,
          cStart, cEnd, cNow, cShare, cLeft, cBar, cPrev>>

Ms(n) == Num(0, n)

\* Instants the clock is observed at: the registry's dates, the millisecond
\* before the cutoff, and the two instants of the documented examples.
Anchors ==
    { NewDate(2023, 8, 4, 12, 0),
      NewDate(2025, 5, 24, 0, 0),
      NewDate(2025, 8, 2, 0, 0),
      NewDate(2026, 0, 2, 11, 45),
      NewDate(2026, 1, 2, 0, 0),
      Minus(NewDate(2026, 1, 2, 11, 45), Ms(1)),
      NewDate(2026, 1, 2, 11, 45),
      NewDate(2026, 5, 23, 23, 59),
      NewDate(2026, 5, 24, 0, 0),
      NewDate(2027, 5, 25, 0, 0),
      NewDate(2027, 5, 25, 0, 1) }

\* The clock is followed up to MaxDrift ms past each anchor.
Observed(t) == \E a \in Anchors : Leq(a, t) /\ Leq(t, Plus(a, Ms(MaxDrift)))

\* The path segments requests come with.
TargetStrings == RegistryIds \cup ObjectPrototypeKeys \cup {"unknown"}

UnitStrings == Units \cup {"minutes"}

NoResp ==
    [surface |-> "none", target |-> "", unit |-> "", outcome |-> "none",
     title |-> "", start |-> Zero, end |-> Zero, timeLeft |-> 0, percent |-> 0,
     t1 |-> Zero, t2 |-> Zero, t3 |-> Zero]

\* Instants the calculator's inputs are drawn from.
CalcInstants == {Num(d, o) : d \in 0..MaxDay, o \in {0, 1, MS_PER_DAY - 1}}

CalcInit ==
    /\ cStart = Zero /\ cEnd = Zero /\ cNow = Zero
    /\ cShare = <<>> /\ cLeft = <<>> /\ cBar = <<>> /\ cPrev = <<>>

DashInit ==
    /\ view = "unmounted" /\ nowState = Zero /\ interval = FALSE
    /\ due = Zero /\ fires = 0 /\ cards = <<>>

Init ==
    /\ clock \in Anchors
    /\ resp = NoResp
    /\ DashInit
    /\ CalcInit

\* ------------------------------------------------------------ clock

\* Time passes.  A response is returned before the clock is looked at again,
\* and an armed timer runs its callback at most MaxDrift ms after it is due.
ClockAdvance(t) ==
    /\ Less(clock, t)
    /\ resp.surface = "none"
    /\ interval => Leq(t, Plus(due, Ms(MaxDrift)))
    /\ clock' = t
    /\ UNCHANGED <<shareVars, dashVars, calcVars>>

ClockTargets ==
    Anchors \cup (IF interval THEN {Plus(due, Ms(d)) : d \in 0..MaxDrift} ELSE {})

\* ------------------------------------------------------------ share page

\* generateMetadata({params}); d1 is the time between the Date.now() of
\* resolveRange and the new Date() of calculateTimeLeft.
generateMetadata(target, unit, d1) ==
    LET item     == shareItems(target)
        t1       == clock
        t2       == Plus(t1, Ms(d1))
        range    == resolveRange(item, t1)
        timeLeft == calculateTimeLeft(range.end, unit, t2)
    IN  IF isNotFound(target, unit)
        THEN [clock |-> clock,
              resp |-> [NoResp EXCEPT !.surface = "metadata", !.target = target,
                            !.unit = unit, !.outcome = "NotFound",
                            !.title = "Not Found"]]
        ELSE IF ~range.defined
        THEN \* end.getTime() of undefined, after new Date() was read
             [clock |-> t2,
              resp |-> [NoResp EXCEPT !.surface = "metadata", !.target = target,
                            !.unit = unit, !.outcome = "TypeError",
                            !.t1 = t1, !.t2 = t2, !.t3 = t2]]
        ELSE [clock |-> t2,
              resp |-> [surface |-> "metadata", target |-> target, unit |-> unit,
                        outcome |-> "ok", title |-> item.title,
                        start |-> range.start, end |-> range.end,
                        timeLeft |-> timeLeft, percent |-> 0,
                        t1 |-> t1, t2 |-> t2, t3 |-> t2]]

\* SharePage({params}); d2 is the time between the new Date() of
\* calculateTimeLeft and the Date.now() of calculateProgress.  notFound()
\* throws, so nothing after it runs.
SharePage(target, unit, d1, d2) ==
    LET item     == shareItems(target)
        t1       == clock
        t2       == Plus(t1, Ms(d1))
        t3       == Plus(t2, Ms(d2))
        range    == resolveRange(item, t1)
        timeLeft == calculateTimeLeft(range.end, unit, t2)
        percent  == calculateProgress(range.start, range.end, t3)
    IN  IF isNotFound(target, unit)
        THEN [clock |-> clock,
              resp |-> [NoResp EXCEPT !.surface = "page", !.target = target,
                            !.unit = unit, !.outcome = "NotFound"]]
        ELSE IF ~range.defined
        THEN [clock |-> t2,
              resp |-> [NoResp EXCEPT !.surface = "page", !.target = target,
                            !.unit = unit, !.outcome = "TypeError",
                            !.t1 = t1, !.t2 = t2, !.t3 = t2]]
        ELSE [clock |-> t3,
              resp |-> [surface |-> "page", target |-> target, unit |-> unit,
                        outcome |-> "ok", title |-> item.title,
                        start |-> range.start, end |-> range.end,
                        timeLeft |-> timeLeft, percent |-> percent,
                        t1 |-> t1, t2 |-> t2, t3 |-> t3]]

MetadataRequest(target, unit, d1) ==
    /\ resp.surface = "none"
    /\ Observed(generateMetadata(target, unit, d1).clock)
    /\ clock' = generateMetadata(target, unit, d1).clock
    /\ resp' = generateMetadata(target, unit, d1).resp
    /\ UNCHANGED <<dashVars, calcVars>>

PageRequest(target, unit, d1, d2) ==
    /\ resp.surface = "none"
    /\ Observed(SharePage(target, unit, d1, d2).clock)
    /\ clock' = SharePage(target, unit, d1, d2).clock
    /\ resp' = SharePage(target, unit, d1, d2).resp
    /\ UNCHANGED <<dashVars, calcVars>>

\* The handler has returned (or thrown): its locals are gone.
Respond ==
    /\ resp.surface # "none"
    /\ resp' = NoResp
    /\ UNCHANGED <<clock, dashVars, calcVars>>

Next ==
    \/ \E t \in ClockTargets : ClockAdvance(t)
    \/ \E target \in TargetStrings, unit \in UnitStrings, d1 \in 0..MaxDrift :
          MetadataRequest(target, unit, d1)
    \/ \E target \in TargetStrings, unit \in UnitStrings, d1 \in 0..MaxDrift,
          d2 \in 0..MaxDrift :
          d1 + d2 <= MaxDrift /\ PageRequest(target, unit, d1, d2)
    \/ Respond

Spec == Init /\ [][Next]_vars

\* ------------------------------------------------------------ dashboard

\* Home mounts: useState(() => Date.now()), the first render, then the effect
\* arms the 60-second timer.
Mount ==
    /\ view = "unmounted"
    /\ view' = "mounted"
    /\ nowState' = clock
    /\ cards' = Render(clock)
    /\ interval' = TRUE
    /\ due' = Plus(clock, Ms(INTERVAL_MS))
    /\ UNCHANGED <<clock, fires, shareVars, calcVars>>

\* The timer's callback: setNow(Date.now()), and the render that follows.
IntervalFire ==
    /\ interval
    /\ Leq(due, clock)
    /\ fires < MaxFires
    /\ nowState' = clock
    /\ cards' = Render(clock)
    /\ due' = Plus(due, Ms(INTERVAL_MS))
    /\ fires' = fires + 1
    /\ UNCHANGED <<clock, view, interval, shareVars, calcVars>>

\* Faulty variant of Unmount: the effect returns no cleanup, the timer stays armed.
Unmount_NoCleanup ==
    /\ view = "mounted"
    /\ view' = "torn"
    /\ UNCHANGED <<clock, nowState, interval, due, fires, cards, shareVars, calcVars>>

\* Home is torn down: the effect's cleanup runs clearInterval(interval).
Unmount ==
    /\ view = "mounted"
    /\ view' = "torn"
    /\ interval' = FALSE
    /\ UNCHANGED <<clock, nowState, due, fires, cards, shareVars, calcVars>>

NextDash ==
    \/ \E t \in ClockTargets : ClockAdvance(t)
    \/ Mount
    \/ IntervalFire
    \/ Unmount

SpecDash == Init /\ [][NextDash]_vars

\* ------------------------------------------------------------ calculator

InitCalc ==
    /\ clock = Zero
    /\ resp = NoResp
    /\ DashInit
    /\ cStart \in CalcInstants
    /\ cEnd \in CalcInstants
    /\ cNow \in CalcInstants
    /\ cShare = <<>> /\ cLeft = <<>> /\ cBar = <<>> /\ cPrev = <<>>

ApplyCalculateProgress ==
    /\ cShare = <<>>
    /\ cShare' = <<calculateProgress(cStart, cEnd, cNow)>>
    /\ UNCHANGED <<clock, shareVars, dashVars, cStart, cEnd, cNow, cLeft, cBar, cPrev>>

ApplyCalculateTimeLeft ==
    /\ cLeft = <<>>
    /\ cLeft' = <<[u \in Units |-> calculateTimeLeft(cEnd, u, cNow)]>>
    /\ UNCHANGED <<clock, shareVars, dashVars, cStart, cEnd, cNow, cShare, cBar, cPrev>>

ApplyProgressBar ==
    /\ cBar = <<>>
    /\ cBar' = <<ProgressBar([id |-> "item", start |-> cStart, end |-> cEnd], cNow)>>
    /\ UNCHANGED <<clock, shareVars, dashVars, cStart, cEnd, cNow, cShare, cLeft, cPrev>>

\* The same range at a later instant; the results so far are kept in cPrev.
CalcAdvance(t) ==
    /\ cShare # <<>> /\ cLeft # <<>> /\ cBar # <<>>
    /\ Less(cNow, t)
    /\ cPrev' = <<[now |-> cNow, share |-> cShare[1], bar |-> cBar[1].percent]>>
    /\ cNow' = t
    /\ cShare' = <<>> /\ cLeft' = <<>> /\ cBar' = <<>>
    /\ UNCHANGED <<clock, shareVars, dashVars, cStart, cEnd>>

NextCalc ==
    \/ ApplyCalculateProgress
    \/ ApplyCalculateTimeLeft
    \/ ApplyProgressBar
    \/ \E t \in CalcInstants : CalcAdvance(t)

SpecCalc == InitCalc /\ [][NextCalc]_vars

\* ------------------------------------------------------------ claims

\* C1: on the share surface a request reports not-found exactly when its
\* target is not a registry id or its unit is not days, hours or seconds,
\* whatever string the target is.
C1_NotFoundExactlyForInvalidPairs ==
    resp.surface # "none" =>
        (resp.outcome = "NotFound"
            <=> (resp.target \notin RegistryIds \/ resp.unit \notin Units))

\* C2: for start <= end and every now, the percent of calculateProgress and
\* of ProgressBar lies in [0, 100] (0 .. 1000 tenths), and is 0 when
\* end = start.
C2_PercentInRange ==
    Leq(cStart, cEnd) =>
        /\ cShare # <<>> =>
              /\ cShare[1] \in 0..1000
              /\ cStart = cEnd => cShare[1] = 0
        /\ cBar # <<>> =>
              /\ cBar[1].percent \in 0..1000
              /\ cStart = cEnd => cBar[1].percent = 0

\* C2's case: a degenerate range, both functions applied at another instant.
C2_Witness ==
    /\ cStart = cEnd /\ cNow # cStart
    /\ cShare = <<0>> /\ cBar # <<>> /\ cBar[1].percent = 0

\* C3: for start < end the percent is exactly 0 for now < start and exactly
\* 100 for now > end, on both surfaces.
C3_PercentOutsideRange ==
    Less(cStart, cEnd) =>
        /\ cShare # <<>> =>
              /\ Less(cNow, cStart) => cShare[1] = 0
              /\ Less(cEnd, cNow) => cShare[1] = 1000
        /\ cBar # <<>> =>
              /\ Less(cNow, cStart) => cBar[1].percent = 0
              /\ Less(cEnd, cNow) => cBar[1].percent = 1000

\* C3's case: now after the end of a proper range, both functions applied.
C3_Witness ==
    /\ Less(cStart, cEnd) /\ Less(cEnd, cNow)
    /\ cShare = <<1000>> /\ cBar # <<>> /\ cBar[1].percent = 1000

\* C4: for a fixed range and two instants now1 <= now2 inside it, the percent
\* at now1 is at most the percent at now2, on both surfaces.
C4_PercentMonotone ==
    (cPrev # <<>> /\ Leq(cStart, cPrev[1].now) /\ Leq(cNow, cEnd)) =>
        /\ cShare # <<>> => cPrev[1].share <= cShare[1]
        /\ cBar # <<>> => cPrev[1].bar <= cBar[1].percent

\* C4's case: two instants inside the range between which the percent grew.
C4_Witness ==
    /\ cPrev # <<>> /\ Leq(cStart, cPrev[1].now) /\ Leq(cNow, cEnd)
    /\ cShare # <<>> /\ cPrev[1].share < cShare[1]
    /\ cBar # <<>> /\ cPrev[1].bar < cBar[1].percent

\* C5: for every unit, end and now, calculateTimeLeft and the dashboard's
\* daysLeft are integers greater than or equal to 0.
C5_RemainingNeverNegative ==
    /\ cLeft # <<>> => \A u \in Units : cLeft[1][u] \in Nat
    /\ cBar # <<>> => cBar[1].daysLeft \in Nat

\* C5's case: now after end, every remaining value computed.
C5_Witness ==
    /\ Less(cEnd, cNow) /\ Minus(cNow, cEnd) # Ms(1)
    /\ cLeft # <<>> /\ cLeft[1]["hours"] = 0 /\ cBar # <<>>

\* C6: for unit days the remaining value is the local calendar date of end
\* minus the local calendar date of now, floored at 0, whatever the times of
\* day; end 2026-06-24T00:00 with now 2026-06-23T23:59 gives 1.
C6_DaysAreCalendarDays ==
    (resp.outcome = "ok" /\ resp.unit = "days") =>
        /\ resp.timeLeft = IntMax(0, resp.end.day - resp.t2.day)
        /\ (resp.end = NewDate(2026, 5, 24, 0, 0)
              /\ resp.t2 = NewDate(2026, 5, 23, 23, 59)) => resp.timeLeft = 1

\* C6's case: the documented example, one minute before the end's midnight.
C6_Witness ==
    /\ resp.outcome = "ok" /\ resp.unit = "days"
    /\ resp.end = NewDate(2026, 5, 24, 0, 0)
    /\ resp.t2 = NewDate(2026, 5, 23, 23, 59)
    /\ resp.timeLeft = 1

\* C7: the semester's range resolved before the cutoff is [termStart, cutoff],
\* at or after the cutoff it is [cutoff, termEnd]; the first ends where the
\* second starts.
C7_SemesterSwitchesAtCutoff ==
    (resp.outcome = "ok" /\ resp.target = "semester") =>
        IF Less(resp.t1, Cutoff)
        THEN resp.start = NewDate(2025, 8, 2, 0, 0) /\ resp.end = Cutoff
        ELSE resp.start = Cutoff /\ resp.end = NewDate(2026, 5, 24, 0, 0)

\* C7's case: the range resolved at the cutoff instant itself.
C7_Witness ==
    /\ resp.outcome = "ok" /\ resp.target = "semester"
    /\ resp.t1 = Cutoff /\ resp.start = Cutoff

\* The dashboard entry that corresponds to a share target.
DashboardEntry(target) ==
    CASE target = "semester" -> dashItems[1]
      [] target = "year" -> dashItems[2]
      [] target = "school" -> dashItems[3]

\* C8: for every valid target and the same instant now, the share page shows
\* the percent and the days remaining that the dashboard shows for the
\* corresponding entry.
C8_ShareEqualsDashboard ==
    (resp.surface = "page" /\ resp.outcome = "ok" /\ resp.t1 = resp.t3) =>
        LET bar == ProgressBar(DashboardEntry(resp.target), resp.t1)
        IN  /\ resp.percent = bar.percent
            /\ resp.unit = "days" => resp.timeLeft = bar.daysLeft

\* C9: while the dashboard is mounted every firing of the timer replaces the
\* one now by the clock's reading and every entry is recomputed against it;
\* once the view is torn down the timer is cancelled and now is never
\* replaced again.
C9_TimerLifetime ==
    [][ /\ fires' # fires =>
              /\ view = "mounted"
              /\ nowState' = clock'
              /\ cards' = Render(clock')
        /\ view' = "torn" => ~interval'
        /\ view = "torn" => nowState' = nowState /\ cards' = cards ]_vars

\* C9's case: the timer fired, the view was torn down, and time went on.
C9_Witness ==
    /\ view = "torn" /\ fires >= 1
    /\ Leq(Plus(nowState, Ms(INTERVAL_MS)), clock)

\* C10: for hours and seconds the remaining value is the ceiling of the
\* remaining milliseconds over the unit's length, floored at 0, and is 0
\* exactly when now >= end.
C10_SubDayUnitsRoundUp ==
    cLeft # <<>> =>
        \A u \in {"hours", "seconds"} :
            LET v    == cLeft[1][u]
                unit == IF u = "hours" THEN 3600000 ELSE 1000
                rest == MathMax(Zero, Minus(cEnd, cNow))
            IN  /\ v >= 0
                /\ Leq(rest, Times(Ms(unit), v))
                /\ v > 0 => Less(Times(Ms(unit), v - 1), rest)
                /\ v = 0 <=> Leq(cEnd, cNow)

\* C10's case: one millisecond remains, and one hour and one second are shown.
C10_Witness ==
    /\ Minus(cEnd, cNow) = Ms(1)
    /\ cLeft # <<>> /\ cLeft[1]["hours"] = 1 /\ cLeft[1]["seconds"] = 1

====
